---- MODULE Spec2Model ----
(***************************************************************************)
(* Model of the per-conversation response scheduler of the WhatsApp bot    *)
(* backend: MessageOrchestratorService.processIncomingMessage with its     *)
(* delay-timer callback, the escalation registry and AiSettingsService.    *)
(*                                                                         *)
(* Every accepted call of processIncomingMessage is a generation and has   *)
(* one record in `calls`; its processId is its index in `calls`.           *)
(* The timer callback is cut at its awaits: one action per resumption.     *)
(* `log` lists, in order, the collaborator calls the generation issued;    *)
(* `error` is the error caught by the callback's catch block.              *)
(***************************************************************************)
EXTENDS Naturals, Sequences, FiniteSets

\* ------------------------------------------------------------------ bounds
MaxCalls == 2            \* accepted processIncomingMessage calls (generations)
MaxSettingChanges == 2   \* updates of the orchestration settings
MaxMessages == 1         \* message ids the webhook events carry
MaxSaving == 1           \* message.any handlers awaiting saveMessage at once
MaxStored == 2           \* message ids of the saves that run side by side
MaxConcurrentSaves == 2  \* saveMessage calls running side by side
MaxTextLen == 6          \* characters of a raw text of the model

Phones == {"p1", "p2"}
Sessions == {"s1", "s2"}
\* the conversations messages arrive for: two sessions of one phone number
Conversations == {<<"p1", "s1">>, <<"p1", "s2">>}
OneConversation == {<<"p1", "s1">>}
NoCall == [phoneNumber |-> "-", session |-> "-", outcome |-> "none"]
NoFault == [g |-> 0, op |-> "none"]
NoGenerated == [rawText |-> <<>>, returned |-> FALSE, text |-> <<>>, escalate |-> FALSE]
NoWebhook == [event |-> "-", id |-> 0, fromMe |-> FALSE, group |-> FALSE,
              auth |-> "-", verdict |-> "none"]

VARIABLES
  orchestratorEnabled,      \* AiSettingsService.orchestratorEnabled
  chatOverrides,            \* AiSettingsService.chatOverrides: phone -> "none" | "on" | "off"
  activeProcessIds,         \* phone -> processId (0: no entry)
  pendingMessageTimeouts,   \* phone -> timer handle = index of the call that armed it (0: no entry)
  escalatedConversations,   \* set of keys <<session, phone>> mapped to true
  calls,                    \* one record per accepted processIncomingMessage call
  lastCall,                 \* history: the processIncomingMessage call made by the last step
  burstOf,                  \* history: call index -> first call of its burst
  lastFault,                \* history: the collaborator call that failed in the last step
  settingChanges,           \* number of settings updates so far
  savedMessages,            \* chat.message_history of the conversation: ids stored
  saving,                   \* handleMessageAny calls awaiting saveMessage, each with
                            \* the chat row its findUnique returned (read, history)
  lastWebhook,              \* history: the webhook handler step made by the last step
  generated                 \* a generateResponseWithEscalation call: the raw text of
                            \* the model and, once it returned, { text, escalate }

vars == <<orchestratorEnabled, chatOverrides, activeProcessIds, pendingMessageTimeouts,
          escalatedConversations, calls, lastCall, burstOf,
          lastFault, settingChanges, savedMessages, saving, lastWebhook, generated>>

settingsVars == <<orchestratorEnabled, chatOverrides, settingChanges>>
schedulerVars == <<activeProcessIds, pendingMessageTimeouts>>
webhookVars == <<savedMessages, saving, lastWebhook>>

\* ----------------------------------------------------------------- helpers
Gens == 1..Len(calls)

RECURSIVE CountOp(_, _)
CountOp(log, op) ==
  IF log = <<>> THEN 0
  ELSE (IF Head(log) = op THEN 1 ELSE 0) + CountOp(Tail(log), op)

Has(log, op) == \E i \in 1..Len(log) : log[i] = op

NewCall(phoneNumber, session, pc) ==
  [phoneNumber |-> phoneNumber, session |-> session, pc |-> pc,
   log |-> <<>>, error |-> "none", history |-> "none", result |-> "none"]

\* ------------------------------------------------------ AiSettingsService
\* the per-chat override is not consulted
isOrchestratorEnabled_GlobalOnly(phoneNumber) == orchestratorEnabled

isOrchestratorEnabled(phoneNumber) ==
  IF ~orchestratorEnabled THEN FALSE
  ELSE IF chatOverrides[phoneNumber] # "none" THEN chatOverrides[phoneNumber] = "on"
  ELSE TRUE

setGlobalOrchestrator(enabled) ==
  /\ settingChanges < MaxSettingChanges
  /\ orchestratorEnabled' = enabled
  /\ settingChanges' = settingChanges + 1
  /\ lastCall' = NoCall
  /\ lastFault' = NoFault
  /\ UNCHANGED <<chatOverrides, schedulerVars, escalatedConversations,
                 calls, burstOf, webhookVars, generated>>

setChatOrchestrator(phoneNumber, enabled) ==
  /\ settingChanges < MaxSettingChanges
  /\ chatOverrides' = [chatOverrides EXCEPT ![phoneNumber] = IF enabled THEN "on" ELSE "off"]
  /\ settingChanges' = settingChanges + 1
  /\ lastCall' = NoCall
  /\ lastFault' = NoFault
  /\ UNCHANGED <<orchestratorEnabled, schedulerVars, escalatedConversations,
                 calls, burstOf, webhookVars, generated>>

clearChatOverride(phoneNumber) ==
  /\ settingChanges < MaxSettingChanges
  /\ chatOverrides' = [chatOverrides EXCEPT ![phoneNumber] = "none"]
  /\ settingChanges' = settingChanges + 1
  /\ lastCall' = NoCall
  /\ lastFault' = NoFault
  /\ UNCHANGED <<orchestratorEnabled, schedulerVars, escalatedConversations,
                 calls, burstOf, webhookVars, generated>>

\* ------------------------------------------------------ escalation registry
makeEscalationKey(phoneNumber, session) == <<session, phoneNumber>>

\* the key looked up is built with its two parts swapped
isConversationEscalated_KeyOrder(phoneNumber, session) ==
  makeEscalationKey(session, phoneNumber) \in escalatedConversations

\* the flag is looked up by phone number alone
isConversationEscalated_AnySession(phoneNumber, session) ==
  \E s \in Sessions : makeEscalationKey(phoneNumber, s) \in escalatedConversations

isConversationEscalated(phoneNumber, session) ==
  makeEscalationKey(phoneNumber, session) \in escalatedConversations

setConversationEscalated(phoneNumber, session, value) ==
  IF value
  THEN escalatedConversations \cup {makeEscalationKey(phoneNumber, session)}
  ELSE escalatedConversations \ {makeEscalationKey(phoneNumber, session)}

clearEscalation(phoneNumber, session) ==
  /\ escalatedConversations' = setConversationEscalated(phoneNumber, session, FALSE)
  /\ lastCall' = NoCall
  /\ lastFault' = NoFault
  /\ UNCHANGED <<settingsVars, schedulerVars, calls, burstOf, webhookVars, generated>>

\* ---------------------------------------------- processIncomingMessage (sync part)
\* the existing timer is not cleared
clearTimeout_Noop(cs, handle) == cs

\* clearTimeout(handle): a timer that has not fired yet never fires; a timer that
\* has fired, or no handle at all, is left alone.
clearTimeout(cs, handle) ==
  IF handle # 0 /\ cs[handle].pc = "delay"
  THEN [cs EXCEPT ![handle].pc = "cleared"]
  ELSE cs

\* A call that returns early (lines 74-95): nothing is scheduled.
Refuse(phoneNumber, session, why) ==
  /\ lastCall' = [phoneNumber |-> phoneNumber, session |-> session, outcome |-> why]
  /\ lastFault' = NoFault
  /\ UNCHANGED <<settingsVars, schedulerVars, escalatedConversations, calls, burstOf>>

\* Leading-edge variant: a call that finds a pending delay is dropped and the
\* pending delay is left to run.
ScheduleKeepPending(phoneNumber, session) ==
  LET processId == Len(calls) + 1
      existingTimeout == pendingMessageTimeouts[phoneNumber]
  IN IF existingTimeout # 0 /\ calls[existingTimeout].pc = "delay"
     THEN /\ calls' = Append(calls, NewCall(phoneNumber, session, "done"))
          /\ UNCHANGED schedulerVars
     ELSE /\ activeProcessIds' = [activeProcessIds EXCEPT ![phoneNumber] = processId]
          /\ calls' = Append(calls, NewCall(phoneNumber, session, "delay"))
          /\ pendingMessageTimeouts' =
               [pendingMessageTimeouts EXCEPT ![phoneNumber] = processId]

\* A call that finds a pending delay arms its own timer next to it and leaves the
\* recorded processId as it is.
ScheduleKeepToken(phoneNumber, session) ==
  LET processId == Len(calls) + 1
      existingTimeout == pendingMessageTimeouts[phoneNumber]
  IN /\ activeProcessIds' =
          IF existingTimeout # 0 /\ calls[existingTimeout].pc = "delay"
          THEN activeProcessIds
          ELSE [activeProcessIds EXCEPT ![phoneNumber] = processId]
     /\ calls' = Append(calls, NewCall(phoneNumber, session, "delay"))
     /\ pendingMessageTimeouts' =
          [pendingMessageTimeouts EXCEPT ![phoneNumber] = processId]

\* Lines 97-112 and 201-202: mint the processId, record it as the current one of
\* the phone number, clear the existing timeout, arm the new one and store it.
Schedule(phoneNumber, session) ==
  LET processId == Len(calls) + 1
      existingTimeout == pendingMessageTimeouts[phoneNumber]
  IN /\ activeProcessIds' = [activeProcessIds EXCEPT ![phoneNumber] = processId]
     /\ calls' = Append(clearTimeout(calls, existingTimeout),
                        NewCall(phoneNumber, session, "delay"))
     /\ pendingMessageTimeouts' =
          [pendingMessageTimeouts EXCEPT ![phoneNumber] = processId]

\* History only: the burst an accepted call belongs to.  It joins the burst of the
\* latest call of the same conversation whose delay timer has not fired yet.
PendingOf(phoneNumber, session) ==
  {g \in Gens : /\ calls[g].phoneNumber = phoneNumber
                /\ calls[g].session = session
                /\ calls[g].pc = "delay"}

BurstFor(phoneNumber, session) ==
  LET pend == PendingOf(phoneNumber, session)
  IN IF pend = {} THEN Len(calls) + 1
     ELSE burstOf[CHOOSE g \in pend : \A h \in pend : h <= g]

processIncomingMessage(phoneNumber, session, skipAiResponse) ==
  IF ~isOrchestratorEnabled(phoneNumber)
  THEN Refuse(phoneNumber, session, "disabled")
  ELSE IF isConversationEscalated(phoneNumber, session)
  THEN Refuse(phoneNumber, session, "escalated")
  ELSE IF skipAiResponse
  THEN Refuse(phoneNumber, session, "skipped")
  ELSE /\ Schedule(phoneNumber, session)
       /\ lastCall' = [phoneNumber |-> phoneNumber, session |-> session,
                       outcome |-> "accepted"]
       /\ burstOf' = Append(burstOf, BurstFor(phoneNumber, session))
       /\ lastFault' = NoFault
       /\ UNCHANGED <<settingsVars, escalatedConversations>>

\* ------------------------------------------------- the delay-timer callback
\* the callback reads the settings again at each currency check
IsCurrent_AndEnabled(g) ==
  /\ activeProcessIds[calls[g].phoneNumber] = g
  /\ isOrchestratorEnabled(calls[g].phoneNumber)

IsCurrent(g) == activeProcessIds[calls[g].phoneNumber] = g

\* issue a collaborator call: append it to the log and wait for it at pc
Issue(g, op, pc) == [calls EXCEPT ![g].log = Append(@, op), ![g].pc = pc]

\* the awaited call `op` of g returned (ok) or threw (~ok); the callback goes on as cs
Outcome(g, op, ok, cs) ==
  /\ lastFault' = IF ok THEN NoFault ELSE [g |-> g, op |-> op]
  /\ calls' = cs

Frame ==
  /\ lastCall' = NoCall
  /\ UNCHANGED <<settingsVars, schedulerVars, escalatedConversations, burstOf,
                 webhookVars, generated>>

\* the catch block sends the apology without stopping typing first
Catch_NoStop(g, op) ==
  [calls EXCEPT ![g].error = op, ![g].log = Append(@, "sendErrorResponse"),
                ![g].pc = "apology"]

\* catch block, lines 191-198: the error of `op` is caught, typing is stopped, then
\* the apology is sent
Catch(g, op) ==
  [calls EXCEPT ![g].error = op, ![g].log = Append(@, "stopTyping"), ![g].pc = "catchStop"]

\* the seen signal is left out: typing starts right after the check at delay expiry
TimerFire_NoSeen(g) ==
  /\ calls[g].pc = "delay"
  /\ IF ~IsCurrent(g)
     THEN /\ calls' = [calls EXCEPT ![g].pc = "done"]
          /\ UNCHANGED pendingMessageTimeouts
     ELSE /\ pendingMessageTimeouts' =
               [pendingMessageTimeouts EXCEPT ![calls[g].phoneNumber] = 0]
          /\ calls' = Issue(g, "startTyping", "startTyping")
  /\ lastCall' = NoCall
  /\ lastFault' = NoFault
  /\ UNCHANGED <<settingsVars, activeProcessIds, escalatedConversations, burstOf,
                 webhookVars, generated>>

\* lines 112-128: the delay expires
TimerFire(g) ==
  /\ calls[g].pc = "delay"
  /\ IF ~IsCurrent(g)
     THEN /\ calls' = [calls EXCEPT ![g].pc = "done"]
          /\ UNCHANGED pendingMessageTimeouts
     ELSE /\ pendingMessageTimeouts' =
               [pendingMessageTimeouts EXCEPT ![calls[g].phoneNumber] = 0]
          /\ calls' = Issue(g, "sendSeen", "sendSeen")
  /\ lastCall' = NoCall
  /\ lastFault' = NoFault
  /\ UNCHANGED <<settingsVars, activeProcessIds, escalatedConversations, burstOf,
                 webhookVars, generated>>

\* lines 127-131: sendSeen returned (a failure is swallowed), startTyping is issued
SeenDone(g, ok) ==
  /\ calls[g].pc = "sendSeen"
  /\ Outcome(g, "sendSeen", ok, Issue(g, "startTyping", "startTyping"))
  /\ Frame

\* a failure of startTyping is not swallowed: it reaches the catch block
StartTypingDone_Throws(g, ok) ==
  /\ calls[g].pc = "startTyping"
  /\ Outcome(g, "startTyping", ok,
             IF ok THEN [calls EXCEPT ![g].pc = "typing"] ELSE Catch(g, "startTyping"))
  /\ Frame

\* lines 131-136: startTyping returned, the typing delay starts
StartTypingDone(g, ok) ==
  /\ calls[g].pc = "startTyping"
  /\ Outcome(g, "startTyping", ok, [calls EXCEPT ![g].pc = "typing"])
  /\ Frame

\* the currency check after the typing delay is left out
TypingDelayDone_NoRecheck(g) ==
  /\ calls[g].pc = "typing"
  /\ calls' = Issue(g, "getMessageHistory", "history")
  /\ lastFault' = NoFault
  /\ Frame

\* lines 136-147: the typing delay expires; second currency check
TypingDelayDone(g) ==
  /\ calls[g].pc = "typing"
  /\ calls' = IF ~IsCurrent(g)
              THEN Issue(g, "stopTyping", "abortStop")
              ELSE Issue(g, "getMessageHistory", "history")
  /\ lastFault' = NoFault
  /\ Frame

\* lines 141-142: stopTyping of the abort returned
AbortStopDone(g, ok) ==
  /\ calls[g].pc = "abortStop"
  /\ Outcome(g, "stopTyping", ok, [calls EXCEPT ![g].pc = "done"])
  /\ Frame

\* generator called although the history is empty
HistoryRead_AlwaysGenerate(g, h) ==
  [Issue(g, "generateResponseWithEscalation", "generate") EXCEPT ![g].history = h]

\* the greeting is sent while the typing indicator is still on
HistoryRead_GreetNoStop(g, h) ==
  IF h = "empty"
  THEN [Issue(g, "sendResponse:greeting", "greetSend") EXCEPT ![g].history = h]
  ELSE [Issue(g, "generateResponseWithEscalation", "generate") EXCEPT ![g].history = h]

\* lines 147-164: the history read returned h; empty: stop typing for the greeting,
\* otherwise the generator is called
HistoryRead(g, h) ==
  IF h = "empty"
  THEN [Issue(g, "stopTyping", "greetStop") EXCEPT ![g].history = h]
  ELSE [Issue(g, "generateResponseWithEscalation", "generate") EXCEPT ![g].history = h]

\* chat.service.ts 291-313: getMessageHistory returns the stored history; an error
\* inside the read (~ok) is caught and yields []
getMessageHistory(stored, ok) == IF ok THEN stored ELSE "empty"

\* an error of the history read reaches the catch block of the callback
HistoryDone_Throws(g, stored, ok) ==
  /\ calls[g].pc = "history"
  /\ calls' = IF ok THEN HistoryRead(g, stored) ELSE Catch(g, "getMessageHistory")
  /\ lastFault' = IF ok THEN NoFault
                  ELSE [g |-> g, op |-> "getMessageHistory", stored |-> stored]
  /\ Frame

\* line 147: the history read of a conversation whose stored history is `stored`
\* returned; the label of a failed read keeps what was stored
HistoryDone(g, stored, ok) ==
  /\ calls[g].pc = "history"
  /\ calls' = HistoryRead(g, getMessageHistory(stored, ok))
  /\ lastFault' = IF ok THEN NoFault
                  ELSE [g |-> g, op |-> "getMessageHistory", stored |-> stored]
  /\ Frame

\* lines 152-158: stopTyping returned, the default greeting is sent
GreetStopDone(g, ok) ==
  /\ calls[g].pc = "greetStop"
  /\ Outcome(g, "stopTyping", ok, Issue(g, "sendResponse:greeting", "greetSend"))
  /\ Frame

\* lines 154-159, 245-260: the greeting send returned; a failure is rethrown
GreetSendDone(g, ok) ==
  /\ calls[g].pc = "greetSend"
  /\ Outcome(g, "sendResponse:greeting", ok,
             IF ok THEN [calls EXCEPT ![g].pc = "done"]
             ELSE Catch(g, "sendResponse:greeting"))
  /\ Frame

\* lines 163-173: the generator returned r ("reply" | "escalate") or threw ("fail")
GenerateDone(g, r) ==
  /\ calls[g].pc = "generate"
  /\ Outcome(g, "generateResponseWithEscalation", r # "fail",
             IF r = "fail" THEN Catch(g, "generateResponseWithEscalation")
             ELSE [Issue(g, "stopTyping", "replyStop") EXCEPT ![g].result = r])
  /\ Frame

\* lines 264-305: notifyHumanAgent; csChatId is process.env.HUMAN_CS_WHATSAPP_ID, read
\* at the call: when it is unset ("") the function returns at once, otherwise the
\* alert is sent to the operator's chat
notifyHumanAgent(g, cs, csChatId) ==
  IF csChatId = ""
  THEN [cs EXCEPT ![g].log = Append(@, "notifyHumanAgent"), ![g].pc = "done"]
  ELSE [cs EXCEPT ![g].log = Append(Append(@, "notifyHumanAgent"), "sendText:alert"),
                  ![g].pc = "notify"]

\* the generated text is sent whatever the escalation signal says
AfterGenerate_ReplyAnyway(g, csChatId) ==
  IF calls[g].result = "escalate"
  THEN [notifyHumanAgent(g, [calls EXCEPT ![g].log = Append(@, "setConversationEscalated")],
                         csChatId)
          EXCEPT ![g].log = Append(@, "sendResponse:reply"), ![g].pc = "replySend"]
  ELSE Issue(g, "sendResponse:reply", "replySend")

\* lines 175-190: after typing was stopped: escalate (set the flag, notify the
\* operator, no reply) or send the generated reply
AfterGenerate(g, csChatId) ==
  IF calls[g].result = "escalate"
  THEN notifyHumanAgent(g, [calls EXCEPT ![g].log = Append(@, "setConversationEscalated")],
                        csChatId)
  ELSE Issue(g, "sendResponse:reply", "replySend")

\* the escalation branch notifies the operator without setting the flag
ReplyStopDone_NoFlag(g, ok, csChatId) ==
  /\ calls[g].pc = "replyStop"
  /\ calls[g].result # "escalate" => csChatId = "cs"
  /\ Outcome(g, "stopTyping", ok, AfterGenerate(g, csChatId))
  /\ lastCall' = NoCall
  /\ UNCHANGED <<settingsVars, schedulerVars, escalatedConversations, burstOf,
                 webhookVars, generated>>

\* lines 171-190: stopTyping returned (a failure is swallowed); line 177 sets the flag
ReplyStopDone(g, ok, csChatId) ==
  /\ calls[g].pc = "replyStop"
  /\ calls[g].result # "escalate" => csChatId = "cs"
  /\ Outcome(g, "stopTyping", ok, AfterGenerate(g, csChatId))
  /\ escalatedConversations' =
       IF calls[g].result = "escalate"
       THEN setConversationEscalated(calls[g].phoneNumber, calls[g].session, TRUE)
       ELSE escalatedConversations
  /\ lastCall' = NoCall
  /\ UNCHANGED <<settingsVars, schedulerVars, burstOf, webhookVars, generated>>

\* a failure of the alert send reaches the catch block of the callback
NotifyDone_Throws(g, ok) ==
  /\ calls[g].pc = "notify"
  /\ Outcome(g, "sendText:alert", ok,
             IF ok THEN [calls EXCEPT ![g].pc = "done"] ELSE Catch(g, "sendText:alert"))
  /\ Frame

\* lines 289-304: the alert send returned; a failure is caught and logged
NotifyDone(g, ok) ==
  /\ calls[g].pc = "notify"
  /\ Outcome(g, "sendText:alert", ok, [calls EXCEPT ![g].pc = "done"])
  /\ Frame

\* lines 190, 245-260: the reply send returned; a failure is rethrown
ReplySendDone(g, ok) ==
  /\ calls[g].pc = "replySend"
  /\ Outcome(g, "sendResponse:reply", ok,
             IF ok THEN [calls EXCEPT ![g].pc = "done"]
             ELSE Catch(g, "sendResponse:reply"))
  /\ Frame

\* lines 195-197: stopTyping of the catch block returned, the apology is sent
CatchStopDone(g, ok) ==
  /\ calls[g].pc = "catchStop"
  /\ Outcome(g, "stopTyping", ok, Issue(g, "sendErrorResponse", "apology"))
  /\ Frame

\* a failure of the apology send leaves the callback: its promise is rejected
ApologyDone_Rethrow(g, ok) ==
  /\ calls[g].pc = "apology"
  /\ Outcome(g, "sendErrorResponse", ok,
             [calls EXCEPT ![g].pc = IF ok THEN "done" ELSE "rejected"])
  /\ Frame

\* lines 311-321: the apology send returned; a failure is caught and logged
ApologyDone(g, ok) ==
  /\ calls[g].pc = "apology"
  /\ Outcome(g, "sendErrorResponse", ok, [calls EXCEPT ![g].pc = "done"])
  /\ Frame

\* ------------------------------------------------------------ specification
Init ==
  /\ orchestratorEnabled = TRUE
  /\ chatOverrides = [p \in Phones |-> "none"]
  /\ activeProcessIds = [p \in Phones |-> 0]
  /\ pendingMessageTimeouts = [p \in Phones |-> 0]
  /\ escalatedConversations = {}
  /\ calls = <<>>
  /\ lastCall = NoCall
  /\ burstOf = <<>>
  /\ lastFault = NoFault
  /\ settingChanges = 0
  /\ savedMessages = {}
  /\ saving = {}
  /\ lastWebhook = NoWebhook
  /\ generated = NoGenerated

\* both callers leave skipAiResponse false (whatsapp.service.ts 193-197, 313-317)
SkipAiResponse == {FALSE}

Pipeline ==
  \/ \E g \in Gens : TimerFire(g)
  \/ \E g \in Gens, ok \in BOOLEAN : SeenDone(g, ok)
  \/ \E g \in Gens, ok \in BOOLEAN : StartTypingDone(g, ok)
  \/ \E g \in Gens : TypingDelayDone(g)
  \/ \E g \in Gens, ok \in BOOLEAN : AbortStopDone(g, ok)
  \/ \E g \in Gens, h \in {"empty", "nonempty"}, ok \in BOOLEAN : HistoryDone(g, h, ok)
  \/ \E g \in Gens, ok \in BOOLEAN : GreetStopDone(g, ok)
  \/ \E g \in Gens, ok \in BOOLEAN : GreetSendDone(g, ok)
  \/ \E g \in Gens, r \in {"reply", "escalate", "fail"} : GenerateDone(g, r)
  \/ \E g \in Gens, ok \in BOOLEAN, csChatId \in {"", "cs"} : ReplyStopDone(g, ok, csChatId)
  \/ \E g \in Gens, ok \in BOOLEAN : NotifyDone(g, ok)
  \/ \E g \in Gens, ok \in BOOLEAN : ReplySendDone(g, ok)
  \/ \E g \in Gens, ok \in BOOLEAN : CatchStopDone(g, ok)
  \/ \E g \in Gens, ok \in BOOLEAN : ApologyDone(g, ok)

\* a call that passes the three early returns of lines 74-95
Accepts(phoneNumber, session, skipAiResponse) ==
  /\ isOrchestratorEnabled(phoneNumber)
  /\ ~isConversationEscalated(phoneNumber, session)
  /\ ~skipAiResponse

\* an inbound message of one of the conversations convs; at most cap calls are accepted
Submit(convs, cap) ==
  \E c \in convs, skip \in SkipAiResponse :
    /\ Accepts(c[1], c[2], skip) => Len(calls) < cap
    /\ processIncomingMessage(c[1], c[2], skip)
    /\ UNCHANGED <<webhookVars, generated>>

\* the operator's "resume"
Resume(convs) == \E c \in convs : clearEscalation(c[1], c[2])

\* the settings endpoints of ai.controller.ts
Settings(convs) ==
  \/ \E b \in BOOLEAN : setGlobalOrchestrator(b)
  \/ \E c \in convs, b \in BOOLEAN : setChatOrchestrator(c[1], b)
  \/ \E c \in convs : clearChatOverride(c[1])

\* ------------------------------------------------------------ AiAgentService
\* Texts are sequences of characters.  The marker [[ESCALATE_TO_HUMAN]] is the
\* three characters "[", "E", "]"; the fallback phrases are the one phrase "p";
\* "P" is its upper-case form and " " is white space.
EscalationMarker == <<"[", "E", "]">>
Patterns == {<<"p">>}
TextChars == {"[", "E", "]", " ", "p", "P"}
RawTexts == UNION {[1..n -> TextChars] : n \in 0..MaxTextLen}

\* String.prototype.indexOf: the first position pat occurs at, 0 when it does not
indexOf(text, pat) ==
  LET at == {i \in 1..(Len(text) - Len(pat) + 1) :
               SubSeq(text, i, i + Len(pat) - 1) = pat}
  IN IF at = {} THEN 0 ELSE CHOOSE i \in at : \A j \in at : i <= j

includes(text, pat) == indexOf(text, pat) # 0

\* String.prototype.replace with a string pattern: the first occurrence only
replace(text, pat, with) ==
  LET i == indexOf(text, pat)
  IN IF i = 0 THEN text
     ELSE SubSeq(text, 1, i - 1) \o with \o SubSeq(text, i + Len(pat), Len(text))

toLowerCase(text) ==
  [i \in 1..Len(text) |-> IF text[i] = "P" THEN "p"
                          ELSE IF text[i] = "E" THEN "e" ELSE text[i]]

\* String.prototype.trim: white space at both ends is dropped
trim(text) ==
  LET solid == {i \in 1..Len(text) : text[i] # " "}
  IN IF solid = {} THEN <<>>
     ELSE SubSeq(text, CHOOSE i \in solid : \A j \in solid : i <= j,
                       CHOOSE i \in solid : \A j \in solid : i >= j)

\* part_010 lines 113-131
shouldEscalate(text) ==
  IF text = <<>> THEN FALSE
  ELSE IF includes(text, EscalationMarker) THEN TRUE
  ELSE \E p \in Patterns : includes(toLowerCase(text), p)

\* part_010 lines 136-138
stripEscalationMarker(text) == trim(replace(text, EscalationMarker, <<>>))

\* part_010 lines 96-110: the awaited generateResponse returns rawText, the call
\* returns { text: cleanText, escalate }
generateResponseWithEscalation ==
  /\ ~generated.returned
  /\ \E rawText \in RawTexts :
       generated' = [rawText |-> rawText, returned |-> TRUE,
                     text |-> stripEscalationMarker(rawText),
                     escalate |-> shouldEscalate(rawText)]
  /\ UNCHANGED <<settingsVars, schedulerVars, escalatedConversations, calls, lastCall,
                 burstOf, lastFault, webhookVars>>

NextGenerate == generateResponseWithEscalation

\* one call of the generator with every raw text of RawTexts
SpecGenerate == Init /\ [][NextGenerate]_vars

\* ---------------------------------------------------------- WhatsappService
\* Strings are sequences of characters: "a" is a hexadecimal digit, "z" is not.
HexDigits == {"a"}
SignatureChars == {"a", "z"}

\* createHmac(algorithm, secret).update(rawBody).digest('hex'): the hexadecimal
\* digest of the raw body, one byte long here; an unknown algorithm throws
Algorithms == {"sha512"}
createHmac(algorithm) == <<"a", "a">>

\* the values of the X-Webhook-Hmac header: absent (empty) or a string
Signatures == UNION {[1..n -> SignatureChars] : n \in 0..(Len(createHmac("sha512")) + 1)}

\* Buffer.from(str, 'hex'): one byte per pair of hexadecimal digits; decoding stops
\* at the first pair that is not one, and a last odd character is dropped
RECURSIVE BufferFromHex(_)
BufferFromHex(str) ==
  IF Len(str) < 2 THEN <<>>
  ELSE IF str[1] \in HexDigits /\ str[2] \in HexDigits
       THEN <<<<str[1], str[2]>>>> \o BufferFromHex(SubSeq(str, 3, Len(str)))
       ELSE <<>>

\* lines 335-371: TRUE when verifySignature returns, FALSE when it throws
verifySignature(headers) ==
  IF headers.secret = "" THEN TRUE
  ELSE IF headers.signature = <<>> \/ ~headers.rawBody THEN FALSE
  ELSE LET algorithm == IF headers.algorithm = "" THEN "sha512" ELSE headers.algorithm
       IN IF algorithm \notin Algorithms THEN FALSE
          ELSE LET provided == BufferFromHex(headers.signature)
                   expected == BufferFromHex(createHmac(algorithm))
               IN Len(provided) = Len(expected) /\ provided = expected

\* what the request carries: with no secret configured the headers are not read;
\* with a secret, any signature over the raw body, and the digest with the raw body
\* missing or with an algorithm header createHmac does not know
Headers ==
  {[secret |-> "", signature |-> <<>>, rawBody |-> TRUE, algorithm |-> ""]}
    \cup [secret : {"secret"}, signature : Signatures, rawBody : {TRUE},
          algorithm : {""}]
    \cup {[secret |-> "secret", signature |-> createHmac("sha512"),
           rawBody |-> FALSE, algorithm |-> ""],
          [secret |-> "secret", signature |-> createHmac("sha512"),
           rawBody |-> TRUE, algorithm |-> "md0"]}

\* history only: how the signature of a request relates to the digest of its body
AuthOf(headers) ==
  IF headers.secret = "" THEN "open"
  ELSE IF /\ headers.rawBody
          /\ headers.algorithm = ""
          /\ headers.signature = createHmac("sha512")
       THEN "exact"
       ELSE "inexact"

WebhookLabel(event, id, fromMe, group, auth, verdict) ==
  [event |-> event, id |-> id, fromMe |-> fromMe, group |-> group,
   auth |-> auth, verdict |-> verdict]

\* the orchestrator is not called in this step
OrchestratorIdle ==
  /\ lastCall' = NoCall
  /\ lastFault' = NoFault
  /\ UNCHANGED <<settingsVars, schedulerVars, escalatedConversations, calls, burstOf,
                 generated>>

\* the check for messages sent by the bot itself is left out
handleMessage_NoFromMeCheck(e, auth, cap) ==
  IF e.group
  THEN /\ lastWebhook' = WebhookLabel(e.event, e.id, e.fromMe, e.group, auth, "skipped")
       /\ OrchestratorIdle
       /\ UNCHANGED <<savedMessages, saving>>
  ELSE /\ Accepts(e.phoneNumber, e.session, FALSE) => Len(calls) < cap
       /\ processIncomingMessage(e.phoneNumber, e.session, FALSE)
       /\ lastWebhook' = WebhookLabel(e.event, e.id, e.fromMe, e.group, auth, "submitted")
       /\ UNCHANGED <<savedMessages, saving, generated>>

\* lines 147-198: handleMessage; e.group says that the chat id contains '@g.us'
handleMessage(e, auth, cap) ==
  IF e.fromMe
  THEN /\ lastWebhook' = WebhookLabel(e.event, e.id, e.fromMe, e.group, auth, "skipped")
       /\ OrchestratorIdle
       /\ UNCHANGED <<savedMessages, saving>>
  ELSE IF e.group
  THEN /\ lastWebhook' = WebhookLabel(e.event, e.id, e.fromMe, e.group, auth, "skipped")
       /\ OrchestratorIdle
       /\ UNCHANGED <<savedMessages, saving>>
  ELSE /\ Accepts(e.phoneNumber, e.session, FALSE) => Len(calls) < cap
       /\ processIncomingMessage(e.phoneNumber, e.session, FALSE)
       /\ lastWebhook' = WebhookLabel(e.event, e.id, e.fromMe, e.group, auth, "submitted")
       /\ UNCHANGED <<savedMessages, saving, generated>>

\* lines 200-310: handleMessageAny up to the await of saveMessage
handleMessageAny(e, auth) ==
  IF e.group
  THEN /\ lastWebhook' = WebhookLabel(e.event, e.id, e.fromMe, e.group, auth, "skipped")
       /\ OrchestratorIdle
       /\ UNCHANGED <<savedMessages, saving>>
  ELSE /\ saving' = saving \cup {[id |-> e.id, phoneNumber |-> e.phoneNumber,
                                   session |-> e.session, fromMe |-> e.fromMe,
                                   read |-> FALSE, history |-> {}]}
       /\ lastWebhook' = WebhookLabel(e.event, e.id, e.fromMe, e.group, auth, "saving")
       /\ OrchestratorIdle
       /\ UNCHANGED savedMessages

\* the update appends to the row as it is in the database at the write
saveMessageDone_AtomicAppend(h, r, cap) ==
  /\ h \in saving
  /\ r = "skipped" => h.fromMe /\ ~h.read
  /\ r = "stored" => h.read
  /\ saving' = saving \ {h}
  /\ IF r = "throws"
     THEN /\ lastWebhook' =
               WebhookLabel("message.any", h.id, h.fromMe, FALSE, "-", "saveFailed")
          /\ OrchestratorIdle
          /\ UNCHANGED savedMessages
     ELSE /\ savedMessages' = IF r = "stored" THEN savedMessages \cup {h.id}
                                               ELSE savedMessages
          /\ IF h.fromMe
             THEN /\ lastWebhook' =
                       WebhookLabel("message.any", h.id, h.fromMe, FALSE, "-", "saved")
                  /\ OrchestratorIdle
             ELSE /\ Accepts(h.phoneNumber, h.session, FALSE) => Len(calls) < cap
                  /\ processIncomingMessage(h.phoneNumber, h.session, FALSE)
                  /\ UNCHANGED generated
                  /\ lastWebhook' =
                       WebhookLabel("message.any", h.id, h.fromMe, FALSE, "-",
                                    "savedSubmitted")

\* chat.service.ts 232-255: inside saveMessage, prisma.chat.findUnique (or create)
\* returned the chat row; the call keeps the message_history it read
chatFindUnique(h) ==
  /\ h \in saving
  /\ ~h.read
  /\ saving' = (saving \ {h}) \cup {[h EXCEPT !.read = TRUE, !.history = savedMessages]}
  /\ lastWebhook' = WebhookLabel("message.any", h.id, h.fromMe, FALSE, "-", "reading")
  /\ OrchestratorIdle
  /\ UNCHANGED savedMessages

\* lines 295-318: saveMessage returned or threw; after the save of an incoming
\* message the orchestrator is called.  chat.service.ts 190-285: r is "stored"
\* (lines 257-274: the message is pushed onto the history that was read and
\* prisma.chat.update writes that array), "throws", or "skipped" (lines 203-210: an
\* outgoing message to an unknown customer, the call returns without storing it)
saveMessageDone(h, r, cap) ==
  /\ h \in saving
  /\ r = "skipped" => h.fromMe /\ ~h.read
  /\ r = "stored" => h.read
  /\ saving' = saving \ {h}
  /\ IF r = "throws"
     THEN /\ lastWebhook' =
               WebhookLabel("message.any", h.id, h.fromMe, FALSE, "-", "saveFailed")
          /\ OrchestratorIdle
          /\ UNCHANGED savedMessages
     ELSE /\ savedMessages' = IF r = "stored" THEN h.history \cup {h.id}
                                               ELSE savedMessages
          /\ IF h.fromMe
             THEN /\ lastWebhook' =
                       WebhookLabel("message.any", h.id, h.fromMe, FALSE, "-", "saved")
                  /\ OrchestratorIdle
             ELSE /\ Accepts(h.phoneNumber, h.session, FALSE) => Len(calls) < cap
                  /\ processIncomingMessage(h.phoneNumber, h.session, FALSE)
                  /\ UNCHANGED generated
                  /\ lastWebhook' =
                       WebhookLabel("message.any", h.id, h.fromMe, FALSE, "-",
                                    "savedSubmitted")

\* lines 68-112: routeEvent
routeEvent(e, auth, cap) ==
  IF e.event = "message" THEN handleMessage(e, auth, cap)
  ELSE IF e.event = "message.any" THEN handleMessageAny(e, auth)
  ELSE /\ lastWebhook' = WebhookLabel(e.event, e.id, e.fromMe, e.group, auth, "ignored")
       /\ OrchestratorIdle
       /\ UNCHANGED <<savedMessages, saving>>

\* lines 33-66: handleWebhook
handleWebhook(e, headers, cap) ==
  IF ~verifySignature(headers)
  THEN /\ lastWebhook' = WebhookLabel(e.event, e.id, e.fromMe, e.group,
                                       AuthOf(headers), "unauthorized")
       /\ OrchestratorIdle
       /\ UNCHANGED <<savedMessages, saving>>
  ELSE routeEvent(e, AuthOf(headers), cap)

\* the events WAHA posts about the conversations convs: the two events of a
\* message, and a session status change (which carries no message)
WebhookEvents(convs) ==
  {[event |-> ev, id |-> id, phoneNumber |-> c[1], session |-> c[2],
    fromMe |-> fromMe, group |-> group] :
     ev \in {"message", "message.any"}, id \in 1..MaxMessages,
     c \in convs, fromMe \in BOOLEAN, group \in BOOLEAN}
    \cup {[event |-> "session.status", id |-> 0, phoneNumber |-> c[1],
           session |-> c[2], fromMe |-> FALSE, group |-> FALSE] : c \in convs}

\* a request with headers of hs arrives
WebhookFrom(hs, convs, cap) ==
  \E e \in WebhookEvents(convs), headers \in hs :
    /\ handleWebhook(e, headers, cap)
    /\ Cardinality(saving') <= MaxSaving

Webhook(convs, cap) == WebhookFrom(Headers, convs, cap)

\* the chat row lookups of the saves in flight
ChatReads == \E h \in saving : chatFindUnique(h)

SaveReturns(cap) ==
  \E h \in saving, r \in {"stored", "skipped", "throws"} : saveMessageDone(h, r, cap)

\* no WAHA_WEBHOOK_SECRET: every request is routed
Unsigned == [secret |-> "", signature |-> <<>>, rawBody |-> TRUE, algorithm |-> ""]

\* one request of each kind: unsigned with no secret configured, signed with the
\* digest, signed with the digest and one more character, and signed wrongly
RoutingHeaders ==
  {Unsigned} \cup
  {[secret |-> "secret", signature |-> sig, rawBody |-> TRUE, algorithm |-> ""] :
     sig \in {createHmac("sha512"), createHmac("sha512") \o <<"a">>, <<"z", "a">>}}

NextWebhook ==
  \/ WebhookFrom(RoutingHeaders, OneConversation, MaxCalls)
  \/ ChatReads
  \/ SaveReturns(MaxCalls)

\* the routing of the events of one conversation; the delay timers armed are left
\* pending
SpecWebhook == Init /\ [][NextWebhook]_vars

NextSignature ==
  \/ Webhook(OneConversation, MaxCalls)
  \/ ChatReads
  \/ SaveReturns(MaxCalls)

\* the webhook endpoint under every request of Headers
SpecSignature == Init /\ [][NextSignature]_vars

\* message.any events of the messages of the conversations convs, the customer's
\* (fromMe false) and the echoes of the bot's own sends (fromMe true)
SaveEvents(convs) ==
  {[event |-> "message.any", id |-> id, phoneNumber |-> c[1], session |-> c[2],
    fromMe |-> fromMe, group |-> FALSE] :
     id \in 1..MaxStored, c \in convs, fromMe \in BOOLEAN}

NextSave ==
  \/ \E e \in SaveEvents(OneConversation) :
       /\ handleWebhook(e, Unsigned, MaxCalls)
       /\ Cardinality(saving') <= MaxConcurrentSaves
  \/ ChatReads
  \/ SaveReturns(MaxCalls)

\* saveMessage calls of one conversation running side by side
SpecSave == Init /\ [][NextSave]_vars

Next ==
  \/ Submit(Conversations, MaxCalls)
  \/ Resume(Conversations)
  \/ Pipeline

\* two conversations of one phone number, settings left as constructed
Spec == Init /\ [][Next]_vars

NextSettings ==
  \/ Submit(OneConversation, MaxCalls)
  \/ Resume(OneConversation)
  \/ Settings(OneConversation)
  \/ Pipeline

\* one conversation, with the orchestration settings changing
SpecSettings == Init /\ [][NextSettings]_vars

\* timers fire and awaited calls settle: a callback that can go on eventually does
SpecLive == Spec /\ WF_vars(Pipeline)

\* ------------------------------------------------------------------ claims
CustomerSends == {"sendResponse:reply", "sendResponse:greeting", "sendErrorResponse"}

SameConversation(g, h) ==
  /\ calls[g].phoneNumber = calls[h].phoneNumber
  /\ calls[g].session = calls[h].session

\* a newer call of the same conversation has been accepted
Superseded(g) == \E h \in Gens : h > g /\ SameConversation(g, h)

\* the flag of the conversation of g in the escalation registry
Escalated(phoneNumber, session) == <<session, phoneNumber>> \in escalatedConversations

\* the operations g issues in this step
IssuedNow(g) ==
  {calls'[g].log[i] : i \in (Len(calls[g].log) + 1)..Len(calls'[g].log)}

\* the step is a processIncomingMessage call
IsCallStep == lastCall'.outcome # "none" /\ vars' # vars

ReachedSendOrNotify(g) ==
  \/ Has(calls[g].log, "sendResponse:reply")
  \/ Has(calls[g].log, "sendResponse:greeting")
  \/ Has(calls[g].log, "notifyHumanAgent")

\* the pipeline of g is running: past the currency check at delay expiry, not returned
Active(g) == calls[g].pc \notin {"delay", "cleared", "done"}

\* C1: of the calls of one burst (each accepted for the same conversation while the
\* delay timer of the one before had not fired), no call but the last reaches
\* sendResponse or notifyHumanAgent.
C1_OnlyLastOfBurstRuns ==
  \A g \in Gens, h \in Gens :
    (g < h /\ burstOf[g] = burstOf[h]) => ~ReachedSendOrNotify(g)

C1_Witness ==
  \E g \in Gens, h \in Gens :
    /\ g < h /\ burstOf[g] = burstOf[h]
    /\ Has(calls[h].log, "sendResponse:reply")

\* C2: a generation superseded by a newer accepted call of its conversation issues
\* no send to the customer (reply, greeting, apology) from then on.
C2_SupersededSendsNothing ==
  [][\A g \in Gens : (IssuedNow(g) \cap CustomerSends # {}) => ~Superseded(g)]_vars

\* C3: no two pipelines of the same conversation are active at once.
C3_OnePipelinePerKey ==
  \A g \in Gens, h \in Gens :
    (g # h /\ SameConversation(g, h)) => ~(Active(g) /\ Active(h))

\* C4: while the escalated flag of a conversation is set, no generation of that
\* conversation issues a send to the customer.
C4_NoSendWhileEscalated ==
  [][\A g \in Gens :
       (IssuedNow(g) \cap CustomerSends # {})
         => ~Escalated(calls[g].phoneNumber, calls[g].session)]_vars

\* C5: a generation whose generator result is escalate = true issues no send to the
\* customer; once its typing-stop has returned it has set the flag (the flag is true
\* right after that step) and invoked notifyHumanAgent, each exactly once.
C5_EscalationState ==
  \A g \in Gens :
    calls[g].result = "escalate" =>
      /\ \A i \in 1..Len(calls[g].log) : calls[g].log[i] \notin CustomerSends
      /\ LET n == IF calls[g].pc = "replyStop" THEN 0 ELSE 1
         IN /\ CountOp(calls[g].log, "notifyHumanAgent") = n
            /\ CountOp(calls[g].log, "setConversationEscalated") = n

C5_EscalationStep ==
  \A g \in Gens :
    (calls[g].result = "escalate" /\ calls[g].pc = "replyStop" /\ calls'[g].pc # "replyStop")
      => Escalated(calls[g].phoneNumber, calls[g].session)'

C5_Escalate == []C5_EscalationState /\ [][C5_EscalationStep]_vars

C5_Witness ==
  \E g \in Gens :
    /\ calls[g].result = "escalate" /\ calls[g].pc = "done"
    /\ Has(calls[g].log, "sendText:alert")
    /\ Escalated(calls[g].phoneNumber, calls[g].session)

\* C6: a processIncomingMessage call for an escalated conversation mints no
\* generation and leaves the token map, the timer map, the pending timers and
\* the escalation map as they are.
C6_EscalatedCallIsNoOp ==
  [][(IsCallStep /\ Escalated(lastCall'.phoneNumber, lastCall'.session))
       => UNCHANGED <<activeProcessIds, pendingMessageTimeouts, escalatedConversations,
                      calls>>]_vars

C6_Witness ==
  /\ lastCall.outcome = "escalated"
  /\ \E g \in Gens :
       /\ calls[g].phoneNumber = lastCall.phoneNumber
       /\ calls[g].session = lastCall.session
       /\ calls[g].pc = "delay"
       /\ pendingMessageTimeouts[lastCall.phoneNumber] = g

\* C7: a processIncomingMessage call made while orchestration is disabled, globally
\* or by the override of the phone number, changes neither the token map, the timer
\* map, the escalation map, the generations nor the settings.
C7_DisabledCallIsNoOp ==
  [][(/\ IsCallStep
      /\ \/ ~orchestratorEnabled
         \/ chatOverrides[lastCall'.phoneNumber] = "off")
       => UNCHANGED <<activeProcessIds, pendingMessageTimeouts, escalatedConversations,
                      calls, orchestratorEnabled, chatOverrides>>]_vars

C7_Witness ==
  /\ lastCall.outcome = "disabled"
  /\ chatOverrides[lastCall.phoneNumber] = "off"
  /\ \E g \in Gens : calls[g].pc = "delay" /\ pendingMessageTimeouts[calls[g].phoneNumber] = g

\* C8: a generation that has returned has issued exactly one typing-stop for its
\* typing-start.
C8_OneTypingStop ==
  \A g \in Gens :
    calls[g].pc = "done" =>
      CountOp(calls[g].log, "stopTyping") = CountOp(calls[g].log, "startTyping")

\* C9: a generation whose history read returned the empty sequence never calls the
\* generator, and sends the default greeting once typing has been stopped.
C9_EmptyHistoryGreets ==
  \A g \in Gens :
    calls[g].history = "empty" =>
      /\ ~Has(calls[g].log, "generateResponseWithEscalation")
      /\ calls[g].pc # "greetStop" => Has(calls[g].log, "sendResponse:greeting")

C9_Witness ==
  \E g \in Gens :
    /\ calls[g].history = "empty" /\ calls[g].pc = "done"
    /\ Has(calls[g].log, "sendResponse:greeting")

\* C10: setConversationEscalated(key, true) is executed only by a generation that
\* has not been superseded.
C10_OnlyCurrentEscalates ==
  [][\A g \in Gens : "setConversationEscalated" \in IssuedNow(g) => ~Superseded(g)]_vars

\* the calls of a generation that aborted at the check after the typing delay
AbortLog == <<"sendSeen", "startTyping", "stopTyping">>

\* the calls of a generation that ran the whole callback and sent the reply
FullCycle == <<"sendSeen", "startTyping", "getMessageHistory",
               "generateResponseWithEscalation", "stopTyping", "sendResponse:reply">>

\* C11: a generation that is in its typing delay when a newer call of its
\* conversation has been accepted issues typing-stop as its next and last call: no
\* history read, no generator call, no send.  The newer generation, when it returns
\* with a reply and no error, has issued the full cycle of its own.
C11_AbortState ==
  \A g \in Gens :
    /\ calls[g].pc = "abortStop" => calls[g].log = AbortLog
    /\ (/\ calls[g].pc = "done" /\ calls[g].result = "reply" /\ calls[g].error = "none"
        /\ \E f \in Gens : f < g /\ SameConversation(f, g) /\ calls[f].log = AbortLog)
         => calls[g].log = FullCycle

C11_AbortStep ==
  \A g \in Gens :
    /\ (calls[g].pc = "typing" /\ Superseded(g) /\ calls'[g] # calls[g])
         => /\ calls'[g].pc = "abortStop"
            /\ calls'[g].log = Append(calls[g].log, "stopTyping")
    /\ (calls[g].pc = "abortStop" /\ calls'[g] # calls[g])
         => calls'[g].pc = "done" /\ calls'[g].log = calls[g].log
    /\ calls[g].pc = "done" => calls'[g] = calls[g]

C11_SupersededWhileTyping == []C11_AbortState /\ [][C11_AbortStep]_vars

C11_Witness ==
  \E g \in Gens, h \in Gens :
    /\ g < h /\ SameConversation(g, h)
    /\ calls[g].pc = "done" /\ calls[g].log = AbortLog
    /\ calls[h].pc = "done" /\ calls[h].log = FullCycle

\* the calls that leave the orchestrator: presence signals, sends to the customer,
\* the operator notification and its alert
OutboundOps == {"sendSeen", "startTyping", "stopTyping", "sendResponse:reply",
                "sendResponse:greeting", "sendErrorResponse", "notifyHumanAgent",
                "sendText:alert"}

IsOutbound(op) == op \in OutboundOps

\* the outbound calls of the generations 1..n, generation by generation
RECURSIVE OutboundUpTo(_)
OutboundUpTo(n) ==
  IF n = 0 THEN <<>>
  ELSE OutboundUpTo(n - 1) \o SelectSeq(calls[n].log, IsOutbound)

\* every accepted call so far belongs to one burst, whose work is over; every history
\* read returned messages, every generator result was a plain reply, nothing was caught
OneBurstOver ==
  /\ calls # <<>>
  /\ \A g \in Gens :
       /\ burstOf[g] = 1
       /\ calls[g].pc \in {"cleared", "done"}
       /\ calls[g].history # "empty"
       /\ calls[g].result # "escalate"
       /\ calls[g].error = "none"

\* C12: when one burst of calls of a conversation is all there was, and it is over
\* with a non-empty history, a generator result without escalation and no failure
\* caught, the outbound calls are exactly seen, typing-start, typing-stop and the send
\* of the reply, in that order, all issued by the last call of the burst; the operator
\* is not notified.
C12_BurstOutbound ==
  OneBurstOver =>
    /\ OutboundUpTo(Len(calls)) =
         <<"sendSeen", "startTyping", "stopTyping", "sendResponse:reply">>
    /\ calls[Len(calls)].log = FullCycle

C12_Witness ==
  /\ OneBurstOver
  /\ Len(calls) >= 2
  /\ calls[Len(calls)].log = FullCycle

\* the callback of g got as far as a reply, a greeting, the operator notification or
\* the apology
Completed(g) ==
  \/ Has(calls[g].log, "sendResponse:reply")
  \/ Has(calls[g].log, "sendResponse:greeting")
  \/ Has(calls[g].log, "notifyHumanAgent")
  \/ Has(calls[g].log, "sendErrorResponse")

\* C13: with timers firing and awaited calls settling, an accepted call that no later
\* accepted call of its conversation follows eventually reaches the send of the
\* reply, the send of the greeting, the operator notification or the apology.
C13_LastOfBurstCompletes ==
  \A g \in 1..MaxCalls :
    [](g \in Gens => <>(g \in Gens /\ (Superseded(g) \/ Completed(g))))

\* the flag of the conversation of g is set in this step
EscalationBegins(g) ==
  /\ ~Escalated(calls[g].phoneNumber, calls[g].session)
  /\ Escalated(calls[g].phoneNumber, calls[g].session)'

\* C14: in the step that sets the escalated flag of a conversation, the pending delay
\* timer of the conversation is cleared and its current token is invalidated: after
\* the step no other generation of the conversation is waiting for its delay and
\* none is the current one.
C14_EscalationCancelsAll ==
  [][\A g \in Gens :
       EscalationBegins(g) =>
         \A h \in Gens :
           (h # g /\ SameConversation(g, h)) =>
             /\ calls'[h].pc # "delay"
             /\ activeProcessIds'[calls[h].phoneNumber] # h]_vars

\* the step clears the flag of a conversation ("resume")
IsResumeStep ==
  /\ escalatedConversations' \subseteq escalatedConversations
  /\ escalatedConversations' # escalatedConversations

C16_OverrideWins ==
  \A p \in Phones :
    isOrchestratorEnabled(p) =
      IF chatOverrides[p] # "none" THEN chatOverrides[p] = "on" ELSE orchestratorEnabled

PresenceOps == {"sendSeen", "startTyping", "stopTyping"}

\* the failures that reach the catch block of the callback
CaughtOps == {"generateResponseWithEscalation", "sendResponse:reply",
              "sendResponse:greeting"}

\* the failure of this step is handled inside the orchestrator
FailureHandled ==
  LET f == lastFault'
  IN f.op # "none" =>
       LET c == calls'[f.g]
       IN /\ c.pc # "rejected"
          /\ f.op \in CaughtOps => c.pc = "catchStop" /\ c.error = f.op
          /\ f.op = "getMessageHistory" => c.pc = "greetStop" /\ c.history = "empty"
          /\ f.op \in {"sendText:alert", "sendErrorResponse"} => c.pc = "done"

\* C17: no processIncomingMessage call and no timer callback ends in a rejection: a
\* failure of a presence signal, of the history read, of the generator, of a send, of
\* the operator alert or of the apology is handled in the step it occurs in, and the
\* callback goes on or returns.
C17_NoRejectionState ==
  /\ lastCall.outcome \in {"none", "disabled", "escalated", "skipped", "accepted"}
  /\ \A g \in Gens : calls[g].pc # "rejected"

C17_NeverRejects == []C17_NoRejectionState /\ [][FailureHandled]_vars

C17_Witness ==
  /\ lastFault.op = "sendErrorResponse"
  /\ calls[lastFault.g].pc = "done"
  /\ calls[lastFault.g].error = "sendResponse:reply"

\* C18: a generation whose generator call or reply/greeting send failed issues
\* typing-stop and then the apology, the apology exactly once; a generation with no
\* such failure sends no apology.
C18_ApologyAfterFailure ==
  \A g \in Gens :
    LET log == calls[g].log
        n == Len(log)
    IN /\ calls[g].error = "none" => ~Has(log, "sendErrorResponse")
       /\ calls[g].error # "none" =>
            /\ calls[g].error \in CaughtOps
            /\ Has(log, calls[g].error)
            /\ calls[g].pc \in {"catchStop", "apology", "done"}
            /\ calls[g].pc = "catchStop" =>
                 /\ log[n] = "stopTyping"
                 /\ CountOp(log, "sendErrorResponse") = 0
            /\ calls[g].pc \in {"apology", "done"} =>
                 /\ log[n] = "sendErrorResponse"
                 /\ log[n - 1] = "stopTyping"
                 /\ CountOp(log, "sendErrorResponse") = 1

C18_Witness ==
  \E g \in Gens :
    /\ calls[g].error = "generateResponseWithEscalation"
    /\ calls[g].pc = "done"
    /\ CountOp(calls[g].log, "sendErrorResponse") = 1

\* C19: a step in which a presence call (seen, typing-start, typing-stop) fails takes
\* the generation to the same next step as when the call succeeds, catches no error
\* and issues no apology other than the one the catch block was already sending.
C19_PresenceFailureIgnored ==
  [][LET f == lastFault'
     IN f.op \in PresenceOps =>
          LET c == calls[f.g]
              d == calls'[f.g]
              now == IssuedNow(f.g)
          IN /\ d.error = c.error
             /\ "sendErrorResponse" \in now => c.pc = "catchStop"
             /\ CASE c.pc = "sendSeen" -> d.pc = "startTyping" /\ now = {"startTyping"}
                  [] c.pc = "startTyping" -> d.pc = "typing" /\ now = {}
                  [] c.pc = "abortStop" -> d.pc = "done" /\ now = {}
                  [] c.pc = "greetStop" ->
                       d.pc = "greetSend" /\ now = {"sendResponse:greeting"}
                  [] c.pc = "replyStop" /\ c.result = "reply" ->
                       d.pc = "replySend" /\ now = {"sendResponse:reply"}
                  [] c.pc = "replyStop" /\ c.result = "escalate" ->
                       /\ d.pc \in {"notify", "done"}
                       /\ "notifyHumanAgent" \in now
                       /\ now \cap CustomerSends = {}
                       /\ <<c.session, c.phoneNumber>> \in escalatedConversations'
                  [] c.pc = "catchStop" ->
                       d.pc = "apology" /\ now = {"sendErrorResponse"}
                  [] OTHER -> FALSE]_vars

C19_Witness ==
  /\ lastFault.op = "stopTyping"
  /\ calls[lastFault.g].pc = "replySend"
  /\ calls[lastFault.g].error = "none"

\* C20: a generation superseded by a newer accepted call of its conversation issues
\* no typing-start: superseded while its seen signal is awaited, it returns after it.
C20_SupersededStartsNoTyping ==
  [][\A g \in Gens : "startTyping" \in IssuedNow(g) => ~Superseded(g)]_vars

\* the step is a processIncomingMessage call for another conversation than that of h
IsCallForOtherKey(h) ==
  /\ IsCallStep
  /\ ~(/\ lastCall'.phoneNumber = calls[h].phoneNumber
        /\ lastCall'.session = calls[h].session)

\* C21: a processIncomingMessage call for one conversation (session, phone number)
\* neither replaces the current token nor cancels the pending delay timer of a
\* generation of another conversation, the same phone number on another session
\* included.
C21_KeysIsolated ==
  [][\A h \in Gens :
       IsCallForOtherKey(h) =>
         /\ IsCurrent(h) => activeProcessIds'[calls[h].phoneNumber] = h
         /\ calls[h].pc = "delay" => calls'[h].pc = "delay"]_vars

\* the generations of a phone number whose delay timer has not fired
Unfired(phoneNumber) ==
  {g \in Gens : calls[g].phoneNumber = phoneNumber /\ calls[g].pc = "delay"}

\* C23: a phone number, hence a conversation, has at most one delay timer that has
\* not fired; the handle stored for it is that timer and its generation is the
\* current one; a delay timer that fires finds its generation current.
C23_TimerState ==
  /\ \A p \in Phones :
       /\ Cardinality(Unfired(p)) <= 1
       /\ pendingMessageTimeouts[p] # 0 => pendingMessageTimeouts[p] \in Unfired(p)
  /\ \A g \in Gens :
       calls[g].pc = "delay" =>
         /\ pendingMessageTimeouts[calls[g].phoneNumber] = g
         /\ IsCurrent(g)

C23_TimerStep ==
  \A g \in Gens :
    (calls[g].pc = "delay" /\ calls'[g].pc \notin {"delay", "cleared"})
      => calls'[g].pc = "sendSeen"

C23_OneTimerPerKey == []C23_TimerState /\ [][C23_TimerStep]_vars

C23_Witness ==
  \E g \in Gens, h \in Gens :
    /\ SameConversation(g, h)
    /\ calls[g].pc = "cleared"
    /\ calls[h].pc = "sendSeen"
    /\ pendingMessageTimeouts[calls[h].phoneNumber] = 0

\* C24: a generation that a newer accepted call of its conversation superseded
\* before it issued anything (its delay had not expired) never issues a call.
C24_SupersededBeforeExpiry ==
  [][\A g \in Gens :
       (calls[g].log = <<>> /\ Superseded(g)) => calls'[g].log = <<>>]_vars

C24_Witness ==
  \E g \in Gens, h \in Gens :
    /\ g < h /\ SameConversation(g, h)
    /\ calls[g].pc = "cleared" /\ calls[g].log = <<>>
    /\ calls[h].pc = "done" /\ calls[h].log # <<>>

\* the step changes the orchestration settings
IsSettingsStep == <<orchestratorEnabled, chatOverrides>>' # <<orchestratorEnabled, chatOverrides>>

\* C25: the settings are read only at the start of processIncomingMessage.  A change
\* of the settings leaves the accepted generations, their timers and tokens as they
\* are, and a generation that returned while still the current one of its phone
\* number ran its callback to a reply, a greeting, the notification or the apology,
\* whatever the settings had become.
C25_DoneState ==
  \A g \in Gens : (calls[g].pc = "done" /\ IsCurrent(g)) => Completed(g)

C25_SettingsStep ==
  IsSettingsStep
    => UNCHANGED <<calls, activeProcessIds, pendingMessageTimeouts, escalatedConversations>>

C25_SettingsReadAtStart == []C25_DoneState /\ [][C25_SettingsStep]_vars

\* the last step was the typing-stop before the reply returning (failed and ignored);
\* it issued the reply send, with orchestration disabled for the phone number
C25_Witness ==
  /\ lastFault.op = "stopTyping"
  /\ calls[lastFault.g].pc = "replySend"
  /\ ~isOrchestratorEnabled(calls[lastFault.g].phoneNumber)

\* the calls by which a message leaves for the customer or the operator
MessageOps == CustomerSends \cup {"notifyHumanAgent", "sendText:alert"}

\* C26: in the calls of a generation, every message for the customer or the operator
\* (reply, greeting, notification, apology) comes after a typing-stop that follows
\* the typing-start.
C26_StopBeforeMessage ==
  \A g \in Gens :
    LET log == calls[g].log
    IN \A i \in 1..Len(log) :
         log[i] \in MessageOps =>
           \E j \in 1..(i - 1), k \in 1..(i - 1) :
             k < j /\ log[k] = "startTyping" /\ log[j] = "stopTyping"

C26_Witness ==
  \E g \in Gens :
    /\ calls[g].history = "empty" /\ calls[g].pc = "done"
    /\ calls[g].error = "sendResponse:greeting"

\* C27: the step that issues the operator notification sets the escalated flag of
\* the conversation; a processIncomingMessage call for the conversation while the
\* notification is in flight and the flag still set mints no generation and leaves
\* the token and timer maps alone.
C27_FlagBeforeNotify ==
  [][/\ \A g \in Gens :
          "notifyHumanAgent" \in IssuedNow(g)
            => <<calls[g].session, calls[g].phoneNumber>> \in escalatedConversations'
     /\ (/\ IsCallStep
         /\ Escalated(lastCall'.phoneNumber, lastCall'.session)
         /\ \E g \in Gens : /\ calls[g].pc = "notify"
                             /\ calls[g].phoneNumber = lastCall'.phoneNumber
                             /\ calls[g].session = lastCall'.session)
         => /\ lastCall'.outcome = "escalated"
            /\ UNCHANGED <<calls, activeProcessIds, pendingMessageTimeouts>>]_vars

C27_Witness ==
  /\ lastCall.outcome = "escalated"
  /\ \E g \in Gens :
       /\ calls[g].pc = "notify"
       /\ calls[g].phoneNumber = lastCall.phoneNumber
       /\ calls[g].session = lastCall.session

\* the typing indicator of h is on: typing-start issued, no typing-stop yet
TypingOn(h) == Has(calls[h].log, "startTyping") /\ ~Has(calls[h].log, "stopTyping")

\* C28: the typing-stop a superseded generation issues when it aborts is never issued
\* while the typing indicator of a newer generation of its conversation is on.
C28_AbortStopSparesNewer ==
  [][\A g \in Gens :
       (calls[g].pc = "typing" /\ calls'[g].pc = "abortStop")
         => ~\E h \in Gens : h > g /\ SameConversation(g, h) /\ TypingOn(h)]_vars

\* the step is the arrival of a webhook request
IsArrival == lastWebhook'.auth # "-" /\ vars' # vars

\* C22: with a secret configured, a request whose signature is missing or is not
\* the digest of its raw body is rejected before routing: nothing is saved, no
\* handler starts and the orchestrator is not called.
C22_BadSignatureRejected ==
  [][(IsArrival /\ lastWebhook'.auth = "inexact")
       => /\ lastWebhook'.verdict = "unauthorized"
          /\ lastCall' = NoCall
          /\ UNCHANGED <<savedMessages, saving, calls, activeProcessIds,
                         pendingMessageTimeouts>>]_vars

\* the step calls processIncomingMessage from a webhook handler
IsSubmission == lastWebhook'.verdict \in {"submitted", "savedSubmitted"} /\ vars' # vars

\* C29: when a webhook handler calls processIncomingMessage for a message, the save
\* of that message has completed.
C29_SavedBeforeSubmit ==
  [][IsSubmission => lastWebhook'.id \in savedMessages']_vars

\* C30: a handler step for a message sent by the bot itself or for a message of a
\* group chat does not call processIncomingMessage and leaves the generations, the
\* tokens and the timers as they are.
C30_OwnAndGroupIgnored ==
  [][((lastWebhook'.fromMe \/ lastWebhook'.group) /\ vars' # vars)
       => /\ lastCall' = NoCall
          /\ UNCHANGED <<calls, activeProcessIds, pendingMessageTimeouts>>]_vars

C30_Witness ==
  /\ lastWebhook.verdict = "saved"
  /\ lastWebhook.fromMe
  /\ lastWebhook.id \in savedMessages
  /\ calls # <<>>

\* the history read of this step failed
IsFailedRead == lastFault'.op = "getMessageHistory" /\ vars' # vars

\* a generation that took the empty-history branch calls no generator, sends the
\* greeting once typing is stopped, and sends the apology only for a greeting send
\* that failed
C31_EmptyBranchState ==
  \A g \in Gens :
    calls[g].history = "empty" =>
      /\ ~Has(calls[g].log, "generateResponseWithEscalation")
      /\ calls[g].pc # "greetStop" => Has(calls[g].log, "sendResponse:greeting")
      /\ Has(calls[g].log, "sendErrorResponse") =>
           calls[g].error = "sendResponse:greeting"

\* a failed read leaves the callback where a read that returned [] leaves it,
\* whatever is stored
C31_FailedReadStep ==
  IsFailedRead =>
    LET g == lastFault'.g
    IN /\ calls' = HistoryRead(g, "empty")
       /\ calls'[g].pc = "greetStop"
       /\ calls'[g].error = "none"
       /\ \A stored \in {"empty", "nonempty"} :
            getMessageHistory(stored, FALSE) = getMessageHistory("empty", TRUE)

\* C31: a failed history read is indistinguishable from an empty history: the
\* callback continues exactly as after a read that returned the empty sequence, so
\* it stops typing and sends the default greeting, calls no generator and sends no
\* apology for the failed read, even when the conversation has stored messages.
C31_FailedReadIsEmpty == []C31_EmptyBranchState /\ [][C31_FailedReadStep]_vars

C31_Witness ==
  /\ lastFault.op = "getMessageHistory"
  /\ lastFault.stored = "nonempty"
  /\ calls[lastFault.g].history = "empty"
  /\ calls[lastFault.g].pc = "greetStop"
  /\ calls[lastFault.g].log[Len(calls[lastFault.g].log)] = "stopTyping"

\* g escalated with HUMAN_CS_WHATSAPP_ID unset: notifyHumanAgent returned at once
NoOperatorChannel(g) ==
  /\ Has(calls[g].log, "notifyHumanAgent")
  /\ ~Has(calls[g].log, "sendText:alert")

\* the escalation of g without an operator channel has returned and sent the
\* customer nothing
C32_UnnotifiedState ==
  \A g \in Gens :
    NoOperatorChannel(g) =>
      /\ calls[g].pc = "done"
      /\ calls[g].error = "none"
      /\ Has(calls[g].log, "setConversationEscalated")
      /\ \A i \in 1..Len(calls[g].log) : calls[g].log[i] \notin CustomerSends

C32_UnnotifiedStep ==
  /\ \A g \in Gens :
       \* the alert send failed: the callback returns, the flag is left alone
       /\ (lastFault' = [g |-> g, op |-> "sendText:alert"] /\ vars' # vars) =>
            /\ calls'[g].pc = "done"
            /\ calls'[g].error = "none"
            /\ \A i \in 1..Len(calls'[g].log) : calls'[g].log[i] \notin CustomerSends
            /\ UNCHANGED escalatedConversations
       \* no channel: the flag is set in the step that skips the alert
       /\ (~NoOperatorChannel(g) /\ NoOperatorChannel(g)') =>
            <<calls[g].session, calls[g].phoneNumber>> \in escalatedConversations'
  \* the flag is taken away by clearEscalation only
  /\ ~(escalatedConversations \subseteq escalatedConversations') =>
       IsResumeStep /\ lastCall' = NoCall /\ UNCHANGED calls
  \* a call for an escalated conversation is refused
  /\ (IsCallStep /\ Escalated(lastCall'.phoneNumber, lastCall'.session)) =>
       /\ lastCall'.outcome \in {"escalated", "disabled"}
       /\ UNCHANGED <<calls, activeProcessIds, pendingMessageTimeouts>>

\* C32: when the alert to the operator fails, or HUMAN_CS_WHATSAPP_ID is unset, the
\* escalating generation returns without sending the customer the generated text or
\* the apology; the flag of the conversation is set and is taken away by
\* clearEscalation only, and while it is set every processIncomingMessage call for
\* the conversation is refused.
C32_EscalatedWithoutNotice == []C32_UnnotifiedState /\ [][C32_UnnotifiedStep]_vars

C32_Witness ==
  /\ lastCall.outcome = "escalated"
  /\ \E g \in Gens :
       /\ NoOperatorChannel(g)
       /\ calls[g].pc = "done"
       /\ calls[g].phoneNumber = lastCall.phoneNumber
       /\ calls[g].session = lastCall.session
       /\ Escalated(calls[g].phoneNumber, calls[g].session)

C32_FailedAlertReached ==
  /\ lastFault.op = "sendText:alert"
  /\ calls[lastFault.g].pc = "done"
  /\ Escalated(calls[lastFault.g].phoneNumber, calls[lastFault.g].session)

\* C33: when saveMessage calls for one phone number run side by side, every message
\* a call has stored is still in the stored message history after the other call
\* completes: no step takes a stored message out of the history.
C33_NoAppendLost == [][savedMessages \subseteq savedMessages']_vars

\* C34: generateResponseWithEscalation returns escalate = true whenever the raw text
\* contains the marker or a fallback phrase, and the text it returns never contains
\* the marker, also for a raw text that contains the marker more than once.
C34_MarkerStripped ==
  generated.returned =>
    /\ (\/ includes(generated.rawText, EscalationMarker)
        \/ \E p \in Patterns : includes(toLowerCase(generated.rawText), p))
         => generated.escalate
    /\ ~includes(generated.text, EscalationMarker)

====
